---------------------------- MODULE Spec2Model ----------------------------
(***************************************************************************)
(* Model of the App component of src/src/App.jsx (the second, current      *)
(* variant, lines 305-439; the first variant, lines 7-108, has the same    *)
(* state, effects and submit handler).                                      *)
(*                                                                         *)
(* Two halves share the component state:                                   *)
(*   - the request lifecycle: handleSubmit, split at its one suspension    *)
(*     point (the awaited fetch) into the synchronous prefix               *)
(*     (HandleSubmit) and the continuation that runs when the fetch        *)
(*     settles (Reply);                                                    *)
(*   - the map synchronisation: the map-initialisation effect, its cleanup *)
(*     and the route-update effect, acting on the refs mapRef, markersRef  *)
(*     and polylineRef and on the Leaflet widget and its layers.           *)
(*                                                                         *)
(* Hours are kept in hundredths (2250 is 22.5) and miles in tenths (7700   *)
(* is 770.0) so that the arithmetic of the code stays in the integers; a   *)
(* figure printed with toFixed(1) is a number of tenths.                   *)
(***************************************************************************)
EXTENDS Integers, Sequences, FiniteSets, TLC

VARIABLES
    currentLocation,   \* useState, line 306
    pickupLocation,    \* useState, line 307
    dropoffLocation,   \* useState, line 308
    currentCycleUsed,  \* useState, line 309 (hundredths of an hour)
    logs,              \* useState, line 310
    isCalculating,     \* useState, line 311
    error,             \* useState, line 312
    routePoints,       \* useState, line 313
    totalDistance,     \* useState, line 314 (tenths of a mile, NullDistance = null)
    mapContainerRef,   \* useRef, line 315: is the <div> of line 540 attached
    mapRef,            \* useRef, line 316: the held widget, NoMap = null
    markersRef,        \* useRef, line 317: role -> marker
    polylineRef,       \* useRef, line 318: the route line, NoLayer = null
    widgets,           \* the Leaflet widgets that exist (created and not removed)
    layers,            \* the layers registered on the widgets, in order of addition
    view,              \* the viewport of the held widget: the points it was fitted to
    mapsCreated,       \* how many widgets L.map has created so far
    inflight,          \* the requests (by number) whose fetch awaits its reply
    issued,            \* how many requests handleSubmit has dispatched so far
    effectPending,     \* a dependency of the route effect changed since its last run
    edits,             \* how many form edits happened so far
    origin,            \* which request's reply wrote logs / routePoints / totalDistance
    last               \* the operation that ran last: what it sent or received, how it ended

vars == <<currentLocation, pickupLocation, dropoffLocation, currentCycleUsed,
          logs, isCalculating, error, routePoints, totalDistance,
          mapContainerRef, mapRef, markersRef, polylineRef, widgets, layers,
          view, mapsCreated, inflight, issued, effectPending, edits, origin, last>>

formVars   == <<currentLocation, pickupLocation, dropoffLocation, currentCycleUsed>>
resultVars == <<logs, routePoints, totalDistance>>
mapVars    == <<mapRef, markersRef, polylineRef, widgets, layers, view, mapsCreated>>
reqVars    == <<logs, isCalculating, error, routePoints, totalDistance, inflight, issued, origin>>

-----------------------------------------------------------------------------
(* Bounds of the model.                                                    *)

MaxSubmits == 2   \* requests dispatched in one behaviour
MaxMaps    == 2   \* widgets created in one behaviour
MaxEdits   == 1   \* form edits in one behaviour
MaxLayers  == 5   \* layers registered before a run of the route effect

-----------------------------------------------------------------------------
(* Values.                                                                 *)

NoMap        == 0
NullDistance == -1
NoRoute      == [route_points |-> <<>>, total_distance |-> NullDistance, present |-> FALSE]
NoLayer      == [kind |-> "none", role |-> "", pts |-> <<>>, popup |-> <<>>, map |-> NoMap]
DefaultView  == <<>>
NoPoint      == 0

Roles   == <<"current", "pickup", "dropoff">>
RoleSet == {"current", "pickup", "dropoff"}

Locations    == {"Chicago, IL", "St. Louis, MO"}
CycleChoices == {2250, 6000}

FailedToGenerate == "Failed to generate logs"
NetworkError     == "Network error. Please check your Django backend."
\* err.message of a rejected fetch: the browser's text, or none at all.
FetchMessages    == {"Failed to fetch", ""}
JsonSyntaxError  == "Unexpected token < in JSON"
RouteTypeError   == "Cannot read properties of undefined (reading 'route_points')"
ServiceErrors    == {"", "Could not geocode location"}

\* Day logs of the service, in hundredths of an hour.
DayA == [total_driving |-> 1100, total_on_duty |-> 196, total_sleeper |-> 1000, total_off_duty |-> 104]
DayB == [total_driving |-> 800,  total_on_duty |-> 104, total_sleeper |-> 0,    total_off_duty |-> 1496]
DayC == [total_driving |-> 1100, total_on_duty |-> 400, total_sleeper |-> 800,  total_off_duty |-> 100]

Route(pts, dist) == [route_points |-> pts, total_distance |-> dist, present |-> TRUE]

\* Bodies with a well-formed route of three points.
ValidBodies ==
    { [logs |-> <<DayA>>,       route |-> Route(<<1, 2, 3>>, 7700)],
      [logs |-> <<DayA, DayB>>, route |-> Route(<<3, 2, 1>>, 12000)] }

\* Bodies the service can also send: no route object, an empty point list,
\* too few or too many points.
OddBodies ==
    { [logs |-> <<DayB>>,       route |-> NoRoute],
      [logs |-> <<>>,           route |-> Route(<<>>, 0)],
      [logs |-> <<DayB>>,       route |-> Route(<<1, 2>>, 3000)],
      [logs |-> <<DayA, DayB>>, route |-> Route(<<1, 2, 3, 1>>, 15000)] }

NoBody == [logs |-> <<>>, route |-> NoRoute]

NoRequest == [currentLocation |-> "", pickupLocation |-> "", dropoffLocation |-> "",
              currentCycleUsed |-> 0]

\* What `last` keeps of a reply: everything but its body.
NoReply == [kind |-> "none", ok |-> FALSE, success |-> FALSE, error |-> "", msg |-> "", body |-> NoBody]
ReplyHead(rep) == [rep EXCEPT !.body = NoBody]

\* What comes back from fetch(): a rejection of the fetch itself, a response
\* whose body is not JSON, or a response with a JSON body. A body that is
\* applied (2xx and success) is never read for its error field, so those
\* replies are taken without one.
FetchRejections ==
    { [kind |-> "reject", ok |-> FALSE, success |-> FALSE, error |-> "", msg |-> m, body |-> NoBody] :
          m \in FetchMessages }
HtmlResponses ==
    { [kind |-> "html", ok |-> o, success |-> FALSE, error |-> "", msg |-> "", body |-> NoBody] :
          o \in BOOLEAN }
JsonResponses(bodies) ==
    { rep \in { [kind |-> "json", ok |-> o, success |-> s, error |-> e, msg |-> "", body |-> b] :
                    o \in BOOLEAN, s \in BOOLEAN, e \in ServiceErrors, b \in bodies } :
          (rep.ok /\ rep.success) => rep.error = "" }

Replies(bodies) == FetchRejections \cup HtmlResponses \cup JsonResponses(bodies)

-----------------------------------------------------------------------------
(* Helpers on sequences.                                                   *)

RECURSIVE RemoveFirst(_, _)
RemoveFirst(s, e) ==
    IF s = <<>> THEN <<>>
    ELSE IF Head(s) = e THEN Tail(s)
    ELSE <<Head(s)>> \o RemoveFirst(Tail(s), e)

-----------------------------------------------------------------------------
(* The state after the first commit (the <div> of line 540 is attached to  *)
(* mapContainerRef), before the effects of the mount have run.             *)

Init ==
    /\ currentLocation = "Chicago, IL"
    /\ pickupLocation = "St. Louis, MO"
    /\ dropoffLocation = "Atlanta, GA"
    /\ currentCycleUsed = 2250
    /\ logs = <<>>
    /\ isCalculating = FALSE
    /\ error = ""
    /\ routePoints = <<>>
    /\ totalDistance = NullDistance
    /\ mapContainerRef = TRUE
    /\ mapRef = NoMap
    /\ markersRef = [r \in RoleSet |-> NoLayer]
    /\ polylineRef = NoLayer
    /\ widgets = {}
    /\ layers = <<>>
    /\ view = DefaultView
    /\ mapsCreated = 0
    /\ inflight = {}
    /\ issued = 0
    /\ effectPending = TRUE
    /\ edits = 0
    /\ origin = [logs |-> 0, route |-> 0, distance |-> 0]
    /\ last = [op |-> "construct", id |-> 0, res |-> "", rep |-> NoReply, req |-> NoRequest]

-----------------------------------------------------------------------------
(* The map half.                                                           *)

Marker(role, at, popup, m) ==
    [kind |-> "marker", role |-> role, pts |-> <<at>>, popup |-> popup, map |-> m]
Line(pts, m) ==
    [kind |-> "line", role |-> "", pts |-> pts, popup |-> <<>>, map |-> m]

\* The popup texts of lines 371-373.
Popup(i) ==
    CASE i = 1 -> <<"Current Location: ", currentLocation>>
      [] i = 2 -> <<"Pickup: ", pickupLocation>>
      [] i = 3 -> <<"Dropoff: ", dropoffLocation>>

\* map.removeLayer(layer): a layer that is not registered on the map is left
\* alone (a layer of another widget differs in its map field).
RemoveLayer(ls, layer) == RemoveFirst(ls, layer)

\* The clear step forgotten: the markers of the last run stay on the map.
KeepMarkers(i, ls, refs) == ls

\* Lines 345-346: every marker of the bookkeeping is removed from the map.
RECURSIVE RemoveMarkers(_, _, _)
RemoveMarkers(i, ls, refs) ==
    IF i > 3 THEN ls
    ELSE IF refs[Roles[i]] = NoLayer THEN RemoveMarkers(i + 1, ls, refs)
    ELSE RemoveMarkers(i + 1, RemoveLayer(ls, refs[Roles[i]]), refs)

\* Lines 348-351: the route line is removed when one is held.
RemovePolyline(ls, line) == IF line = NoLayer THEN ls ELSE RemoveLayer(ls, line)

\* Lines 353, 364-373: the three addMarker calls, in order. A point the
\* destructuring of line 353 leaves undefined makes L.marker(...).addTo(map)
\* throw inside the layer's onAdd, after the map has registered the layer and
\* before line 368 records it: the effect ends there.
RECURSIVE AddMarkers(_, _, _)
AddMarkers(i, ls, refs) ==
    IF i > 3 THEN [layers |-> ls, markers |-> refs, threw |-> FALSE]
    ELSE IF i > Len(routePoints)
         THEN [layers  |-> Append(ls, Marker(Roles[i], NoPoint, Popup(i), mapRef)),
               markers |-> refs, threw |-> TRUE]
         ELSE LET m == Marker(Roles[i], routePoints[i], Popup(i), mapRef)
              IN  AddMarkers(i + 1, Append(ls, m), [refs EXCEPT ![Roles[i]] = m])

\* The guard without its test of mapRef.current.
ContainerMissing == ~mapContainerRef

\* Line 322.
AlreadyInitialized == ~mapContainerRef \/ mapRef # NoMap

\* The map-initialisation effect, lines 321-331.
Initialize ==
    IF AlreadyInitialized
    THEN /\ last' = [op |-> "initialize", id |-> mapRef, res |-> "noop", rep |-> NoReply, req |-> NoRequest]
         /\ UNCHANGED <<formVars, reqVars, mapVars, mapContainerRef, effectPending, edits>>
    ELSE IF widgets # {}
    THEN \* L.map throws "Map container is already initialized."
         /\ last' = [op |-> "initialize", id |-> mapRef, res |-> "threw", rep |-> NoReply, req |-> NoRequest]
         /\ UNCHANGED <<formVars, reqVars, mapVars, mapContainerRef, effectPending, edits>>
    ELSE /\ mapsCreated < MaxMaps
         /\ mapsCreated' = mapsCreated + 1
         /\ widgets' = widgets \cup {mapsCreated + 1}
         /\ mapRef' = mapsCreated + 1
         /\ view' = DefaultView
         /\ last' = [op |-> "initialize", id |-> mapsCreated + 1, res |-> "created", rep |-> NoReply, req |-> NoRequest]
         /\ UNCHANGED <<formVars, reqVars, markersRef, polylineRef, layers,
                        mapContainerRef, effectPending, edits>>

\* The cleanup without its assignment of null.
KeptRef == mapRef

\* Line 335.
ReleasedRef == NoMap

\* The cleanup the effect returns, lines 332-337. map.remove() destroys the
\* widget together with the layers registered on it.
Teardown ==
    IF mapRef # NoMap /\ mapRef \notin widgets
    THEN \* remove() on a widget that was removed already fails on its deleted panes
         /\ last' = [op |-> "teardown", id |-> mapRef, res |-> "threw", rep |-> NoReply, req |-> NoRequest]
         /\ UNCHANGED <<formVars, reqVars, mapVars, mapContainerRef, effectPending, edits>>
    ELSE IF mapRef # NoMap
    THEN /\ widgets' = widgets \ {mapRef}
         /\ layers' = SelectSeq(layers, LAMBDA l : l.map # mapRef)
         /\ mapRef' = ReleasedRef
         /\ last' = [op |-> "teardown", id |-> mapRef, res |-> "released", rep |-> NoReply, req |-> NoRequest]
         /\ UNCHANGED <<formVars, reqVars, markersRef, polylineRef, view, mapsCreated,
                        mapContainerRef, effectPending, edits>>
    ELSE /\ last' = [op |-> "teardown", id |-> NoMap, res |-> "noop", rep |-> NoReply, req |-> NoRequest]
         /\ UNCHANGED <<formVars, reqVars, mapVars, mapContainerRef, effectPending, edits>>

\* The route-update effect, lines 341-389.
ApplyRoute ==
    /\ Len(layers) <= MaxLayers
    /\ effectPending' = FALSE
    /\ IF mapRef = NoMap \/ Len(routePoints) = 0
       THEN /\ last' = [op |-> "applyRoute", id |-> mapRef, res |-> "skipped", rep |-> NoReply, req |-> NoRequest]
            /\ UNCHANGED mapVars
       ELSE LET cleared == RemovePolyline(RemoveMarkers(1, layers, markersRef), polylineRef)
                added   == AddMarkers(1, cleared, [r \in RoleSet |-> NoLayer])
            IN  /\ markersRef' = added.markers
                /\ IF added.threw
                   THEN /\ layers' = added.layers
                        /\ polylineRef' = NoLayer
                        /\ view' = view
                        /\ last' = [op |-> "applyRoute", id |-> mapRef, res |-> "threw", rep |-> NoReply, req |-> NoRequest]
                   ELSE /\ layers' = Append(added.layers, Line(routePoints, mapRef))
                        /\ polylineRef' = Line(routePoints, mapRef)
                        /\ view' = SubSeq(routePoints, 1, 3)
                        /\ last' = [op |-> "applyRoute", id |-> mapRef, res |-> "rebuilt", rep |-> NoReply, req |-> NoRequest]
                /\ UNCHANGED <<mapRef, widgets, mapsCreated>>
    /\ UNCHANGED <<formVars, reqVars, mapContainerRef, edits>>

-----------------------------------------------------------------------------
(* The request half: handleSubmit, lines 392-426.                          *)

\* The body of the POST, lines 403-408.
RequestBody ==
    [currentLocation |-> currentLocation, pickupLocation |-> pickupLocation,
     dropoffLocation |-> dropoffLocation, currentCycleUsed |-> currentCycleUsed]

\* The prefix without its setError('').
KeptError == error

\* Line 395.
ClearedError == ""

\* Lines 393-409: the synchronous prefix, up to the awaited fetch. The handler
\* itself tests nothing before it dispatches.
HandleSubmit ==
    /\ issued < MaxSubmits
    /\ isCalculating' = TRUE
    /\ error' = ClearedError
    /\ issued' = issued + 1
    /\ inflight' = inflight \cup {issued + 1}
    /\ last' = [op |-> "submit", id |-> issued + 1, res |-> "dispatched", rep |-> NoReply,
                req |-> RequestBody]
    /\ UNCHANGED <<formVars, resultVars, origin, mapVars, mapContainerRef,
                   effectPending, edits>>

\* The button without its disabled attribute.
UnguardedClick == HandleSubmit

\* Lines 514-516: the submit button, enabled while nothing is being calculated.
SubmitClick == ~isCalculating /\ HandleSubmit

\* Line 456: a submit event that reaches the form's onSubmit without the button
\* (form.requestSubmit(), a dispatched submit event).
SubmitEvent == HandleSubmit

\* The test without response.ok.
SuccessFlagOnly(rep) == rep.success

\* Line 413.
IsSuccess(rep) == rep.ok /\ rep.success

\* The failure branch without data.error.
AlwaysGeneric(rep) == FailedToGenerate

\* Line 418: the message of the Error thrown for a failure reply.
FailureMessage(rep) == IF rep.error # "" THEN rep.error ELSE FailedToGenerate

\* The message of the error that reaches the catch of line 420, "-" when
\* nothing is thrown: the rejection of fetch (398), the SyntaxError of
\* response.json() (411), the TypeError of data.route.route_points when the
\* body has no route (415), the Error of line 418.
Caught(rep) ==
    CASE rep.kind = "reject" -> [thrown |-> TRUE, message |-> rep.msg]
      [] rep.kind = "html"   -> [thrown |-> TRUE, message |-> JsonSyntaxError]
      [] rep.kind = "json" /\ IsSuccess(rep) /\ ~rep.body.route.present
                             -> [thrown |-> TRUE, message |-> RouteTypeError]
      [] rep.kind = "json" /\ IsSuccess(rep) /\ rep.body.route.present
                             -> [thrown |-> FALSE, message |-> ""]
      [] OTHER               -> [thrown |-> TRUE, message |-> FailureMessage(rep)]

\* Line 421.
ErrorText(message) == IF message # "" THEN message ELSE NetworkError

\* Which setters of lines 414-416 ran before the handler left the try block.
LogsSet(rep)  == rep.kind = "json" /\ IsSuccess(rep)
RouteSet(rep) == rep.kind = "json" /\ IsSuccess(rep) /\ rep.body.route.present

\* How the handler ended: through the catch block of lines 420-422 or not.
ReplyResult(rep) == IF Caught(rep).thrown THEN "caught" ELSE "stored"

\* A continuation that sends the request again when it ended in the catch.
RetryFailed(r, rep) == IF Caught(rep).thrown THEN inflight ELSE inflight \ {r}

\* Lines 420-425: the requests in flight once the continuation of request r
\* has ended. Neither the catch nor the finally block calls fetch again.
Outstanding(r, rep) == inflight \ {r}

\* Lines 411-425: the continuation of handleSubmit for request r when its
\* fetch settles with rep. The setters it calls are batched into one update.
Reply(r, rep) ==
    /\ inflight' = Outstanding(r, rep)
    /\ logs' = IF LogsSet(rep) THEN rep.body.logs ELSE logs
    /\ routePoints' = IF RouteSet(rep) THEN rep.body.route.route_points ELSE routePoints
    /\ totalDistance' = IF RouteSet(rep) THEN rep.body.route.total_distance ELSE totalDistance
    /\ origin' = [logs     |-> IF LogsSet(rep) THEN r ELSE origin.logs,
                  route    |-> IF RouteSet(rep) THEN r ELSE origin.route,
                  distance |-> IF RouteSet(rep) THEN r ELSE origin.distance]
    /\ error' = IF Caught(rep).thrown THEN ErrorText(Caught(rep).message) ELSE error
    /\ isCalculating' = FALSE
    /\ effectPending' = (effectPending \/ RouteSet(rep))
    /\ last' = [op |-> "reply", id |-> r, res |-> ReplyResult(rep), rep |-> ReplyHead(rep),
                req |-> NoRequest]
    /\ UNCHANGED <<formVars, issued, mapVars, mapContainerRef, edits>>

\* Lines 466, 474, 482, 498: the form fields.
EditForm ==
    /\ edits < MaxEdits
    /\ edits' = edits + 1
    /\ \/ /\ \E v \in Locations \ {currentLocation} : currentLocation' = v
          /\ effectPending' = TRUE
          /\ UNCHANGED <<pickupLocation, dropoffLocation, currentCycleUsed>>
       \/ /\ \E v \in Locations \ {pickupLocation} : pickupLocation' = v
          /\ effectPending' = TRUE
          /\ UNCHANGED <<currentLocation, dropoffLocation, currentCycleUsed>>
       \/ /\ \E v \in Locations \ {dropoffLocation} : dropoffLocation' = v
          /\ effectPending' = TRUE
          /\ UNCHANGED <<currentLocation, pickupLocation, currentCycleUsed>>
       \/ /\ \E v \in CycleChoices \ {currentCycleUsed} : currentCycleUsed' = v
          /\ UNCHANGED <<currentLocation, pickupLocation, dropoffLocation, effectPending>>
    /\ last' = [op |-> "edit", id |-> 0, res |-> "", rep |-> NoReply, req |-> NoRequest]
    /\ UNCHANGED <<reqVars, mapVars, mapContainerRef>>

-----------------------------------------------------------------------------
(* The figures of the render, lines 429-439 and 544-619.                   *)

Abs(x) == IF x < 0 THEN -x ELSE x
Max(a, b) == IF a >= b THEN a ELSE b

\* (num / den).toFixed(1), as a number of tenths: the quotient num / den,
\* itself counted in tenths, rounded to the nearest whole. A quotient exactly
\* halfway is rounded away from zero, as toFixed does for a double that lies
\* just above the half.
ToFixed1(num, den) ==
    IF num >= 0 THEN (2 * num + den) \div (2 * den)
    ELSE -(((2 * (-num)) + den) \div (2 * den))

\* parseFloat of a string that toFixed(1) printed: tenths back to hundredths.
ParseFloat(tenths) == 10 * tenths

\* A reducer that counts the four totals of the day.
AllHours(day) ==
    day.total_driving + day.total_on_duty + day.total_sleeper + day.total_off_duty

\* Line 431: what the reducer adds for one day.
DutyHours(day) == day.total_driving + day.total_on_duty

\* Lines 430-431: logs.reduce((acc, day) => ..., 0).
RECURSIVE Reduce(_, _)
Reduce(ls, acc) ==
    IF ls = <<>> THEN acc ELSE Reduce(Tail(ls), acc + DutyHours(Head(ls)))

\* Lines 429-433: the printed total, in tenths.
calculateTotalTripHours == ToFixed1(Reduce(logs, 0), 10)

\* Line 438.
CycleLimit == 7000

\* The remaining cycle without Math.max.
UnclampedRemainingCycle ==
    LET totalTripHours == ParseFloat(calculateTotalTripHours)
    IN  ToFixed1(CycleLimit - (currentCycleUsed + totalTripHours), 10)

\* Lines 436-439: the printed remaining cycle, in tenths.
calculateRemainingCycle ==
    LET totalTripHours == ParseFloat(calculateTotalTripHours)
    IN  ToFixed1(Max(0, CycleLimit - (currentCycleUsed + totalTripHours)), 10)

\* Line 553.
AverageSpeed == 55

\* The driving time at another speed.
DrivingTimeAtSixty ==
    IF totalDistance = NullDistance THEN 0 ELSE ToFixed1(totalDistance, 60)

\* Line 553: (totalDistance / 55).toFixed(1), in tenths of an hour; null / 55
\* is 0.
EstDrivingTime ==
    IF totalDistance = NullDistance THEN 0 ELSE ToFixed1(totalDistance, AverageSpeed)

\* Line 544: the route summary (distance, driving time, remaining cycle) is
\* rendered when there are route points.
RouteSummaryShown == Len(routePoints) > 0

\* Line 571: the logs section with the compliance note is rendered when there
\* are logs.
ComplianceNoteShown == Len(logs) > 0

-----------------------------------------------------------------------------
(* Specifications.                                                         *)

NextWith(bodies) ==
    \/ Initialize
    \/ Teardown
    \/ ApplyRoute
    \/ EditForm
    \/ SubmitClick
    \/ SubmitEvent
    \/ \E r \in inflight : \E rep \in Replies(bodies) : Reply(r, rep)

\* The service may answer with any body.
Next == NextWith(ValidBodies \cup OddBodies)
Spec == Init /\ [][Next]_vars

\* The service answers only with routes of three points.
NextValid == NextWith(ValidBodies)
SpecValid == Init /\ [][NextValid]_vars

\* Submissions come from the submit button only.
NextButton ==
    \/ Initialize
    \/ Teardown
    \/ ApplyRoute
    \/ EditForm
    \/ SubmitClick
    \/ \E r \in inflight : \E rep \in Replies(ValidBodies \cup OddBodies) : Reply(r, rep)
SpecButton == Init /\ [][NextButton]_vars

\* The figures of the render over many stored results: the component after a
\* reply stored logs and a route, with the cycle field at some value; every
\* edit of the form renders the figures anew.
MaxDays == 2
DayInputs == {DayA, DayB, DayC}
LogInputs == UNION { [1..n -> DayInputs] : n \in 0..MaxDays }
CycleInputs == {0, 2250, 2253, 5500, 5700, 7500}
DistanceInputs == {7700, 7713, 12000}

InitCompliance ==
    /\ currentLocation = "Chicago, IL"
    /\ pickupLocation = "St. Louis, MO"
    /\ dropoffLocation = "Atlanta, GA"
    /\ currentCycleUsed \in CycleInputs
    /\ logs \in LogInputs
    /\ isCalculating = FALSE
    /\ error = ""
    /\ routePoints = <<1, 2, 3>>
    /\ totalDistance \in DistanceInputs
    /\ mapContainerRef = TRUE
    /\ mapRef = NoMap
    /\ markersRef = [r \in RoleSet |-> NoLayer]
    /\ polylineRef = NoLayer
    /\ widgets = {}
    /\ layers = <<>>
    /\ view = DefaultView
    /\ mapsCreated = 0
    /\ inflight = {}
    /\ issued = 1
    /\ effectPending = TRUE
    /\ edits = 0
    /\ origin = [logs |-> 1, route |-> 1, distance |-> 1]
    /\ last = [op |-> "reply", id |-> 1, res |-> "stored",
               rep |-> [kind |-> "json", ok |-> TRUE, success |-> TRUE, error |-> "",
                        msg |-> "", body |-> NoBody],
               req |-> NoRequest]

NextCompliance == EditForm
SpecCompliance == InitCompliance /\ [][NextCompliance]_vars

-----------------------------------------------------------------------------
(* Properties.                                                             *)

\* The reply that ran last belonged to a request older than one that has
\* been answered already.
Stale ==
    /\ last.op = "reply"
    /\ \E k \in (last.id + 1)..issued : k \notin inflight

\* C1: a reply that arrives after the reply of a later submission changes
\* nothing: logs, route points, total distance and error stay what the later
\* reply made them.
C1_StaleReplyDiscarded ==
    [][Stale' => UNCHANGED <<logs, routePoints, totalDistance, error>>]_vars

\* C2: logs, route points and total distance always come from one and the same
\* response (or are all still the initial values).
C2_ResultFromOneResponse ==
    origin.logs = origin.route /\ origin.route = origin.distance

\* C3: a submission that ends in the catch block after an earlier submission
\* stored its result leaves logs, route points and total distance as they were.
C3_FailureKeepsResult ==
    [][(last'.op = "reply" /\ last'.res = "caught" /\ origin.route # 0)
          => UNCHANGED resultVars]_vars

MarkersOn(m) == SelectSeq(layers, LAMBDA l : l.kind = "marker" /\ l.map = m)
LinesOn(m)   == SelectSeq(layers, LAMBDA l : l.kind = "line" /\ l.map = m)

\* C4: after a run of the route effect on a held map with a route of three
\* points, the map holds exactly three markers, one per role, and exactly one
\* route line, however many runs came before.
C4_ExactlyOneLayerSet ==
    (last.op = "applyRoute" /\ mapRef # NoMap /\ Len(routePoints) = 3)
        => /\ Len(MarkersOn(mapRef)) = 3
           /\ \A i \in 1..3 :
                  Len(SelectSeq(MarkersOn(mapRef), LAMBDA l : l.role = Roles[i])) = 1
           /\ Len(LinesOn(mapRef)) = 1

\* A rebuild that a label change triggered, on a map that held the layers of
\* an earlier run.
C4_Witness ==
    /\ last.op = "applyRoute" /\ last.res = "rebuilt"
    /\ Len(routePoints) = 3
    /\ edits = 1
    /\ Len(MarkersOn(mapRef)) = 3
    /\ LET initial == [current |-> "Chicago, IL", pickup |-> "St. Louis, MO",
                       dropoff |-> "Atlanta, GA"]
       IN  \E i \in 1..Len(layers) :
              /\ layers[i].kind = "marker"
              /\ layers[i].popup[2] # initial[layers[i].role]

\* C5: after a reply with a non-2xx status or without the success flag, none
\* of logs, route points and total distance was written by that reply, an
\* error message is stored and the indicator is off.
C5_FailureRepliesApplyNothing ==
    (/\ last.op = "reply"
     /\ last.rep.kind # "reject"
     /\ (~last.rep.ok \/ ~last.rep.success))
        => /\ origin.logs # last.id
           /\ origin.route # last.id
           /\ origin.distance # last.id
           /\ error # ""
           /\ ~isCalculating

\* A non-2xx reply whose body says success, after an earlier result was stored.
C5_Witness ==
    /\ last.op = "reply" /\ last.rep.kind = "json"
    /\ ~last.rep.ok /\ last.rep.success
    /\ origin.route = 1 /\ last.id = 2
    /\ error # ""

\* C6: submit from a state that is not Submitting turns the indicator on,
\* empties the error, dispatches exactly one request built from the form
\* fields and leaves logs, route points and total distance alone.
C6_SubmitStartsSubmitting ==
    [][(last'.op = "submit" /\ ~isCalculating)
          => /\ isCalculating'
             /\ error' = ""
             /\ last'.id \notin inflight
             /\ inflight' = inflight \cup {last'.id}
             /\ last'.req = RequestBody
             /\ UNCHANGED <<resultVars, origin>>]_vars

\* A second submit, from Error, after the form was edited.
C6_Witness ==
    /\ last.op = "submit" /\ last.id = 2
    /\ isCalculating /\ error = ""
    /\ edits = 1
    /\ inflight = {2}
    /\ last.req.currentCycleUsed = 6000
    /\ origin.route = 0

C8_TransportFailureGeneric ==
    (last.op = "reply" /\ last.rep.kind = "reject") => error = NetworkError

\* C9: at most one widget exists, and the initialisation effect run while a
\* map is held ends without an exception and changes neither the held
\* instance nor its layers nor the bookkeeping.
C9_InitializeIdempotent ==
    [][/\ Cardinality(widgets') <= 1
       /\ (last'.op = "initialize" /\ mapRef # NoMap)
             => (last'.res = "noop" /\ UNCHANGED mapVars)]_vars

\* The initialisation effect ran on a map that holds a full layer set.
C9_Witness ==
    /\ last.op = "initialize" /\ last.res = "noop"
    /\ mapRef # NoMap /\ widgets = {mapRef}
    /\ Len(MarkersOn(mapRef)) = 3 /\ Len(LinesOn(mapRef)) = 1

\* C10: the first teardown releases the widget and drops the reference; a
\* teardown with no map held ends without an exception and changes nothing.
C10_TeardownRepeatable ==
    [][(last'.op = "teardown")
          => IF mapRef # NoMap
             THEN /\ last'.res = "released"
                  /\ mapRef' = NoMap
                  /\ mapRef \notin widgets'
                  /\ SelectSeq(layers', LAMBDA l : l.map = mapRef) = <<>>
             ELSE /\ last'.res = "noop"
                  /\ UNCHANGED mapVars]_vars

\* A second teardown in a row, after the first released a widget.
C10_Witness ==
    /\ last.op = "teardown" /\ last.res = "noop"
    /\ mapsCreated >= 1 /\ mapRef = NoMap /\ widgets = {}

\* C11: the bookkeeping never refers to a widget other than the held one, and
\* after the cleanup no map is held, no marker is recorded and no route line
\* is held, so that a later run of the route effect has nothing of the
\* released map to remove.
C11_TeardownClearsBookkeeping ==
    /\ \A r \in RoleSet : markersRef[r] # NoLayer => markersRef[r].map = mapRef
    /\ polylineRef # NoLayer => polylineRef.map = mapRef
    /\ last.op = "teardown"
          => /\ mapRef = NoMap
             /\ markersRef = [r \in RoleSet |-> NoLayer]
             /\ polylineRef = NoLayer

\* C12: a run of the route effect on a held map with a route that has not
\* exactly three points ends in an exception and leaves the layers, the marker
\* bookkeeping and the route line as they were.
C12_WrongLengthFailsFast ==
    [][(last'.op = "applyRoute" /\ mapRef # NoMap /\ Len(routePoints) # 3)
          => /\ last'.res = "threw"
             /\ UNCHANGED <<layers, markersRef, polylineRef>>]_vars

\* C13: the render that follows a reply which stored anything (it recomputes
\* the compliance figures) sees all three of logs, route points and total
\* distance written by that reply, and a rebuild of the map layers sees logs,
\* route points and total distance of one and the same reply.
C13_ObserversSeeWholeResult ==
    /\ (/\ last.op = "reply"
        /\ last.id \in {origin.logs, origin.route, origin.distance})
          => (origin.logs = last.id /\ origin.route = last.id /\ origin.distance = last.id)
    /\ (last.op = "applyRoute" /\ last.res = "rebuilt")
          => (origin.logs = origin.route /\ origin.logs = origin.distance)

C15_NoAutomaticRetry ==
    [][/\ (last'.op = "submit")
             <=> (issued' = issued + 1 /\ inflight' = inflight \cup {issued'})
       /\ (last'.op # "submit") => (issued' = issued /\ inflight' \subseteq inflight)
       /\ (last'.op = "reply")
             => (last'.id \in inflight /\ inflight' = inflight \ {last'.id})]_vars

\* The second of two submissions failed and nothing is in flight.
C15_Witness ==
    /\ last.op = "reply" /\ last.res = "caught" /\ last.id = 2
    /\ issued = 2
    /\ inflight = {}
    /\ error # ""

\* The driving and on-duty hours of all days, in hundredths.
RECURSIVE DrivingAndOnDuty(_)
DrivingAndOnDuty(ls) ==
    IF ls = <<>> THEN 0
    ELSE Head(ls).total_driving + Head(ls).total_on_duty + DrivingAndOnDuty(Tail(ls))

C17_TotalIsExactSum ==
    /\ 10 * calculateTotalTripHours = DrivingAndOnDuty(logs)
    /\ logs = <<>> => calculateTotalTripHours = 0

\* C17, amended: the total trip hours are the sum over all days of driving and
\* on-duty hours (sleeper-berth and off-duty hours are not counted), rounded to
\* one decimal, and 0.0 for no logs.
C17_TotalIsRoundedSum ==
    /\ Abs(10 * calculateTotalTripHours - DrivingAndOnDuty(logs)) <= 5
    /\ logs = <<>> => calculateTotalTripHours = 0

\* Two days with sleeper-berth and off-duty hours: 27.96 hours, printed as 28.0.
C17_Witness ==
    /\ last.op = "edit"
    /\ logs = <<DayA, DayC>>
    /\ logs[1].total_sleeper > 0 /\ logs[2].total_off_duty > 0
    /\ calculateTotalTripHours = 280
    /\ ComplianceNoteShown

\* C18: when the route summary of a stored result is rendered, the printed
\* driving time is the stored total distance divided by 55, to the one decimal
\* it is printed with (within 0.05); for 770 miles it is 14.0.
C18_DrivingTimeFromDistance ==
    (RouteSummaryShown /\ origin.distance # 0)
        => /\ 2 * Abs(55 * EstDrivingTime - totalDistance) <= 55
           /\ totalDistance = 7700 => EstDrivingTime = 140

\* The second reply stored 1200 miles: 21.8 hours.
C18_Witness ==
    /\ last.op = "reply" /\ last.res = "stored"
    /\ origin.distance = 2
    /\ totalDistance = 12000
    /\ RouteSummaryShown
    /\ EstDrivingTime = 218

\* The layers of the held map are those of the stored route: one marker per
\* role, in order, at the first three points, and one line through all the
\* points; none at all for a route without points.
MapShowsRoute ==
    IF routePoints = <<>>
    THEN MarkersOn(mapRef) = <<>> /\ LinesOn(mapRef) = <<>>
    ELSE /\ Len(routePoints) >= 3
         /\ Len(MarkersOn(mapRef)) = 3
         /\ \A i \in 1..3 :
                /\ MarkersOn(mapRef)[i].role = Roles[i]
                /\ MarkersOn(mapRef)[i].pts = <<routePoints[i]>>
         /\ Len(LinesOn(mapRef)) = 1
         /\ LinesOn(mapRef)[1].pts = routePoints

\* C19: when a reply has stored a route, a map is held and no run of the route
\* effect is due, the layers of the map are those of the stored route.
C19_MapReflectsStoredRoute ==
    (~effectPending /\ mapRef # NoMap /\ origin.route # 0) => MapShowsRoute

\* C20: the indicator is on exactly while a dispatched request awaits its
\* reply.
C20_IndicatorTracksInflight ==
    isCalculating <=> inflight # {}

=============================================================================
